---- MODULE Spec2Model ----
(***************************************************************************)
(* A model of main.py: process_video (the pipeline driver and frame        *)
(* sampler) and get_frame_annotation (the annotation client).              *)
(*                                                                         *)
(* Texts are sequences of characters.  The characters of a fence marker    *)
(* and the JSON punctuation are concrete; the key/value text between the   *)
(* brackets of a JSON value is one opaque character naming the value.      *)
(* Numbers are exact: a frame rate is a fraction num/den.                  *)
(***************************************************************************)
EXTENDS Integers, Sequences, FiniteSets, TLC

VARIABLES
    pc,               \* position of process_video
    interval_seconds, \* the --interval argument
    total_frames,     \* CAP_PROP_FRAME_COUNT, read when the video is opened
    fps,              \* CAP_PROP_FPS, a fraction [num, den]
    timestamps,       \* the list computed at lines 124-126
    idx,              \* 1-based position of the for loop in timestamps
    sought,           \* the frame ids passed to cap.set, in order
    response,         \* what the last chat.completions.create call produced
    all_annotations,  \* the list of annotation dicts
    log,              \* what was printed / written to the progress bar
    pbar_n,           \* number of pbar.update(1) calls
    pbar_desc,        \* the timestamp named by pbar.set_description, {} if none
    cap,              \* the cv2.VideoCapture handle
    probes,           \* number of client.models.list() calls
    requests,         \* number of chat.completions.create calls
    csv,              \* the output file: <<>> while it does not exist
    writes,           \* number of df.to_csv calls
    crash,            \* the exception that left process_video, "" if none
    outcomes          \* per attempted timestamp, how its iteration ended

vars == <<pc, interval_seconds, total_frames, fps, timestamps, idx, sought,
          response, all_annotations, log, pbar_n, pbar_desc, cap, probes,
          requests, csv, writes, crash, outcomes>>

----------------------------------------------------------------------------
(* Bounds of the model *)

MaxFrames == 12

MaxFpsNum == 3

MaxFpsDen == 2

MaxInterval == 5

MaxSamples == 2

----------------------------------------------------------------------------
(* Characters and texts *)

BT == "BACKTICK"

NL == "\n"

SP == " "

Whitespace == {NL, SP}

\* the literal of content.startswith("```json")
FenceJson == <<BT, BT, BT, "j", "s", "o", "n">>

FencePlain == <<BT, BT, BT>>

\* content[7:-4]
SliceStart == 7

SliceEnd == 4

\* Python's s[a:-b] for a, b >= 0
Slice(s, a, b) == SubSeq(s, a + 1, Len(s) - b)

StartsWith(s, p) == Len(s) >= Len(p) /\ SubSeq(s, 1, Len(p)) = p

RECURSIVE LStrip(_)
LStrip(s) ==
    IF s # <<>> /\ Head(s) \in Whitespace THEN LStrip(Tail(s)) ELSE s

RECURSIVE RStrip(_)
RStrip(s) ==
    IF s # <<>> /\ s[Len(s)] \in Whitespace
    THEN RStrip(SubSeq(s, 1, Len(s) - 1)) ELSE s

----------------------------------------------------------------------------
(* JSON values *)

required_keys == <<"title", "caption", "scene_description", "persons", "objects">>

\* a value of the persons / objects key
JList(items) == [tag |-> "list", items |-> items]

JNumList == [tag |-> "numlist", items |-> <<"1", "2">>]

JStr(chars) == [tag |-> "string", items |-> chars]

JNull == [tag |-> "null", items |-> <<>>]

JObject(body, keys, title, persons, objects) ==
    [tag |-> "object", body |-> body, keys |-> keys, title |-> title,
     persons |-> persons, objects |-> objects]

JArray(body, items) ==
    [tag |-> "array", body |-> body, keys |-> items, title |-> "",
     persons |-> JNull, objects |-> JNull]

JNumber(body) ==
    [tag |-> "number", body |-> body, keys |-> <<>>, title |-> "",
     persons |-> JNull, objects |-> JNull]

\* the result of a failed parse, and Python's None
JSONDecodeError == JNumber("JSONDecodeError")

None == JNumber("None")

WellFormed ==
    { JObject("P1", required_keys, "T1", JList(<<"a", "b">>), JList(<<>>)),
      JObject("P2", required_keys, "T2", JList(<<"b">>), JList(<<"y", "x">>)) }

MissingKey ==
    JObject("P3", <<"title", "caption", "persons", "objects">>, "T3",
            JList(<<>>), JList(<<>>))

OddTyped ==
    { JObject("P4", required_keys, "T4", JStr(<<"a", "b">>), JList(<<>>)),
      JObject("P5", required_keys, "T5", JNull, JList(<<>>)),
      JObject("P6", required_keys, "T6", JList(<<"a">>), JNumList),
      JArray("P7", required_keys) }

Scalar == JNumber("7")

JsonValues == WellFormed \cup {MissingKey} \cup OddTyped \cup {Scalar}

\* json.dumps: the text of a value
Render(v) ==
    CASE v.tag = "object" -> <<"{", v.body, "}">>
      [] v.tag = "array" -> <<"[", v.body, "]">>
      [] OTHER -> <<v.body>>

\* json.loads: leading and trailing whitespace is skipped, what is left must
\* be exactly one value
JsonLoads(text) ==
    LET s == RStrip(LStrip(text))
    IN IF \E v \in JsonValues : Render(v) = s
       THEN CHOOSE v \in JsonValues : Render(v) = s
       ELSE JSONDecodeError

\* `key in data`; not defined on a number (TypeError)
SupportsIn(data) == data.tag \in {"object", "array"}

KeyIn(key, data) == \E i \in 1..Len(data.keys) : data.keys[i] = key

----------------------------------------------------------------------------
(* Responses of the inference endpoint *)

Fenced(v, opening, newline, trailing) ==
    opening \o <<NL>> \o Render(v)
            \o (IF newline THEN <<NL>> ELSE <<>>)
            \o FencePlain
            \o (IF trailing THEN <<NL>> ELSE <<>>)

Text(t) == [kind |-> "text", text |-> t]

TransportError == [kind |-> "transport_error", text |-> <<>>]

NoContent == [kind |-> "none", text |-> <<>>]

NoResponse == [kind |-> "no_response", text |-> <<>>]

FencedResponses ==
    { Text(Fenced(v, o, n, t)) :
        v \in WellFormed, o \in {FenceJson, FencePlain},
        n \in BOOLEAN, t \in BOOLEAN }

Responses ==
    { Text(Render(v)) : v \in JsonValues }
    \cup FencedResponses
    \cup {Text(<<"o", "o", "p", "s">>), TransportError, NoContent}

----------------------------------------------------------------------------
(* get_frame_annotation *)

Printed(msg) == [msg |-> msg, ts |-> {}]

Result(data, prints) == [data |-> data, prints |-> prints]

\* faulty variant: the required keys are not validated
GetFrameAnnotationUnvalidated(resp) ==
    IF resp.kind # "text"
    THEN Result(None, <<Printed("api_error")>>)
    ELSE LET content == IF StartsWith(resp.text, FenceJson)
                        THEN Slice(resp.text, SliceStart, SliceEnd)
                        ELSE resp.text
             data == JsonLoads(content)
         IN IF data = JSONDecodeError
            THEN Result(None, <<Printed("json_error")>>)
            ELSE IF ~SupportsIn(data)
            THEN Result(None, <<Printed("api_error")>>)
            ELSE Result(data, <<>>)

GetFrameAnnotation(resp) ==
    IF resp.kind # "text"
    THEN \* create() raised, or content is None and .startswith raised
         Result(None, <<Printed("api_error")>>)
    ELSE LET content == IF StartsWith(resp.text, FenceJson)
                        THEN Slice(resp.text, SliceStart, SliceEnd)
                        ELSE resp.text
             data == JsonLoads(content)
         IN IF data = JSONDecodeError
            THEN Result(None, <<Printed("json_error")>>)
            ELSE IF ~SupportsIn(data)
            THEN Result(None, <<Printed("api_error")>>)
            ELSE IF ~(\A i \in 1..Len(required_keys) : KeyIn(required_keys[i], data))
            THEN Result(None, <<Printed("missing_keys")>>)
            ELSE Result(data, <<>>)

----------------------------------------------------------------------------
(* The arithmetic of process_video *)

Abs(n) == IF n < 0 THEN -n ELSE n

\* int(n / d), d # 0: truncation toward zero
IntTrunc(n, d) ==
    IF (n >= 0) = (d > 0) THEN Abs(n) \div Abs(d) ELSE -(Abs(n) \div Abs(d))

\* faulty variant: one sample for every multiple of the interval below the duration
\* (the quotient rounded up instead of truncated)
SampleCountCeil(frames, f, interval) ==
    IF interval > 0
    THEN (frames * f.den + f.num * interval - 1) \div (f.num * interval)
    ELSE IntTrunc(frames * f.den, f.num * interval)

\* int(duration_seconds / interval_seconds), duration = frames / f
SampleCount(frames, f, interval) ==
    IntTrunc(frames * f.den, f.num * interval)

\* faulty variant: the multiples are counted from 1
ComputeTimestampsFromOne(frames, f, interval) ==
    LET n == SampleCount(frames, f, interval)
    IN [i \in 1..(IF n > 0 THEN n ELSE 0) |-> i * interval]

\* [i * interval for i in range(n)]
ComputeTimestamps(frames, f, interval) ==
    LET n == SampleCount(frames, f, interval)
    IN [i \in 1..(IF n > 0 THEN n ELSE 0) |-> (i - 1) * interval]

\* Python's round(n / d) for n >= 0, d > 0: to nearest, a tie to even
Round(n, d) ==
    LET q == n \div d
        r == n % d
    IN IF 2 * r < d THEN q
       ELSE IF 2 * r > d THEN q + 1
       ELSE IF q % 2 = 0 THEN q ELSE q + 1

\* faulty variant: round(timestamp_sec * fps)
FrameIdRounded(t, f) == Round(t * f.num, f.den)

\* int(timestamp_sec * fps)
FrameId(t, f) == IntTrunc(t * f.num, f.den)

----------------------------------------------------------------------------
(* Flattening and the output table *)

Separator == ", "

\* ", ".join(items)
RECURSIVE Join(_)
Join(items) ==
    IF Len(items) <= 1 THEN items
    ELSE <<Head(items), Separator>> \o Join(Tail(items))

\* ", ".join raises TypeError unless given a str or a list of str
Joinable(v) == v.tag \in {"list", "string"}

\* lines 145-148 complete without an exception
Storable(data) ==
    data.tag = "object" /\ Joinable(data.persons) /\ Joinable(data.objects)

\* round(timestamp_sec, 2): timestamp_sec is an int (i * interval_seconds),
\* which round returns unchanged
Round2(t) == t

\* the annotation dict after lines 145-148: the keys of the response in
\* their order, then "timestamp"
Annotate(data, t) ==
    [columns |-> data.keys \o <<"timestamp">>,
     timestamp |-> Round2(t),
     title |-> data.title,
     caption |-> "c",
     scene_description |-> "s",
     persons |-> Join(data.persons.items),
     objects |-> Join(data.objects.items)]

column_order ==
    <<"timestamp", "title", "caption", "scene_description", "persons", "objects">>

Cell(row, col) ==
    CASE col = "timestamp" -> <<row.timestamp>>
      [] col = "title" -> <<row.title>>
      [] col = "caption" -> <<row.caption>>
      [] col = "scene_description" -> <<row.scene_description>>
      [] col = "persons" -> row.persons
      [] col = "objects" -> row.objects

\* pd.DataFrame(all_annotations): columns in order of first appearance
DataFrame(rows) == [columns |-> rows[1].columns, rows |-> rows]

\* faulty variant: the columns are left in the order of the frame
SelectNothing(df, cols) == df

\* df[column_order]
Select(df, cols) == [columns |-> cols, rows |-> df.rows]

\* df.to_csv(index=False): the header line, then one line per row
ToCsv(df) ==
    <<df.columns>> \o
    [i \in 1..Len(df.rows) |->
        [j \in 1..Len(df.columns) |-> Cell(df.rows[i], df.columns[j])]]

----------------------------------------------------------------------------
(* process_video *)

Logged(msg, t) == [msg |-> msg, ts |-> {t}]

Intervals == (0 - 1)..MaxInterval

\* the videos of the model: fewer than MaxSamples + 1 whole intervals long
WithinBounds(frames, f, interval) ==
    interval > 0 => frames * f.den < (MaxSamples + 1) * f.num * interval

FrameRates == [num : 0..MaxFpsNum, den : 1..MaxFpsDen]

Init ==
    /\ pc = "start"
    /\ interval_seconds \in Intervals
    /\ total_frames = 0
    /\ fps = [num |-> 0, den |-> 1]
    /\ timestamps = <<>>
    /\ idx = 1
    /\ sought = <<>>
    /\ response = NoResponse
    /\ all_annotations = <<>>
    /\ log = <<>>
    /\ pbar_n = 0
    /\ pbar_desc = {}
    /\ cap = "none"
    /\ probes = 0
    /\ requests = 0
    /\ csv = <<>>
    /\ writes = 0
    /\ crash = ""
    /\ outcomes = <<>>

\* lines 92-94
CheckPath ==
    /\ pc = "start"
    /\ \E exists \in BOOLEAN :
        IF exists
        THEN pc' = "connect" /\ log' = log
        ELSE pc' = "not_found" /\ log' = Append(log, Printed("video_not_found"))
    /\ UNCHANGED <<interval_seconds, total_frames, fps, timestamps, idx, sought,
                   response, all_annotations, pbar_n, pbar_desc, cap, probes,
                   requests, csv, writes, crash, outcomes>>

\* faulty variant: the client is constructed but the connection is not tested
ConnectUntested ==
    /\ pc = "connect"
    /\ pc' = "open"
    /\ UNCHANGED <<interval_seconds, total_frames, fps, timestamps, idx, sought,
                   response, all_annotations, log, pbar_n, pbar_desc, cap,
                   probes, requests, csv, writes, crash, outcomes>>

\* lines 97-105
Connect ==
    /\ pc = "connect"
    /\ probes' = probes + 1
    /\ \E listed \in BOOLEAN :
        IF listed
        THEN pc' = "open" /\ log' = log
        ELSE pc' = "unreachable" /\ log' = Append(log, Printed("connect_error"))
    /\ UNCHANGED <<interval_seconds, total_frames, fps, timestamps, idx, sought,
                   response, all_annotations, pbar_n, pbar_desc, cap, requests,
                   csv, writes, crash, outcomes>>

\* lines 107-126
Open ==
    /\ pc = "open"
    /\ \E opened \in BOOLEAN, frames \in 0..MaxFrames, f \in FrameRates :
        IF ~opened
        THEN /\ pc' = "not_opened"
             /\ log' = Append(log, Printed("open_error"))
             /\ UNCHANGED <<total_frames, fps, timestamps, crash, cap>>
        ELSE /\ cap' = "opened"
             /\ total_frames' = frames
             /\ fps' = f
             /\ IF f.num = 0
                THEN \* total_frames / fps raises
                     /\ pc' = "crashed"
                     /\ crash' = "ZeroDivisionError"
                     /\ UNCHANGED <<log, timestamps>>
                ELSE IF interval_seconds = 0
                THEN \* duration_seconds / interval_seconds raises
                     /\ pc' = "crashed"
                     /\ crash' = "ZeroDivisionError"
                     /\ log' = Append(log, Printed("video_info"))
                     /\ UNCHANGED timestamps
                ELSE /\ WithinBounds(frames, f, interval_seconds)
                     /\ pc' = "iterate"
                     /\ log' = Append(log, Printed("video_info"))
                     /\ timestamps' = ComputeTimestamps(frames, f, interval_seconds)
                     /\ UNCHANGED crash
    /\ UNCHANGED <<interval_seconds, idx, sought, response, all_annotations,
                   pbar_n, pbar_desc, probes, requests, csv, writes, outcomes>>

\* lines 129-158: one pass of the loop body
Iterate ==
    /\ pc = "iterate"
    /\ idx <= Len(timestamps)
    /\ LET timestamp_sec == timestamps[idx]
       IN /\ sought' = Append(sought, FrameId(timestamp_sec, fps))
          /\ \E ret \in BOOLEAN, resp \in Responses :
              IF ~ret
              THEN \* continue
                   /\ idx' = idx + 1
                   /\ outcomes' = Append(outcomes, "decode_failed")
                   /\ UNCHANGED <<pc, response, all_annotations, log, pbar_n,
                                  pbar_desc, requests, crash>>
              ELSE LET r == GetFrameAnnotation(resp)
                   IN /\ pbar_desc' = {timestamp_sec}
                      /\ requests' = requests + 1
                      /\ response' = resp
                      /\ IF r.data = None
                         THEN /\ log' = log \o r.prints
                                            \o <<Logged("failed", timestamp_sec)>>
                              /\ idx' = idx + 1
                              /\ pbar_n' = pbar_n + 1
                              /\ outcomes' = Append(outcomes, "annotation_failed")
                              /\ UNCHANGED <<pc, all_annotations, crash>>
                         ELSE IF Storable(r.data)
                         THEN /\ all_annotations' =
                                   Append(all_annotations,
                                          Annotate(r.data, timestamp_sec))
                              /\ log' = Append(log, Logged("annotated", timestamp_sec))
                              /\ idx' = idx + 1
                              /\ pbar_n' = pbar_n + 1
                              /\ outcomes' = Append(outcomes, "annotated")
                              /\ UNCHANGED <<pc, crash>>
                         ELSE \* lines 145-148 raise, nothing catches it
                              /\ pc' = "crashed"
                              /\ crash' = "TypeError"
                              /\ outcomes' = Append(outcomes, "raised")
                              /\ UNCHANGED <<idx, all_annotations, log, pbar_n>>
    /\ UNCHANGED <<interval_seconds, total_frames, fps, timestamps, cap, probes,
                   csv, writes>>

\* faulty variant: the table is written without the emptiness test
FinalizeUnguarded ==
    /\ pc = "iterate"
    /\ idx > Len(timestamps)
    /\ pc' = "written"
    /\ csv' = <<column_order>> \o
              [i \in 1..Len(all_annotations) |->
                  [j \in 1..Len(column_order) |->
                      Cell(all_annotations[i], column_order[j])]]
    /\ writes' = writes + 1
    /\ log' = Append(log, Printed("saved"))
    /\ cap' = "released"
    /\ UNCHANGED <<interval_seconds, total_frames, fps, timestamps, idx, sought,
                   response, all_annotations, pbar_n, pbar_desc, probes,
                   requests, crash, outcomes>>

\* lines 160-181
Finalize ==
    /\ pc = "iterate"
    /\ idx > Len(timestamps)
    /\ IF all_annotations = <<>>
       THEN /\ pc' = "empty"
            /\ log' = Append(log, Printed("no_annotations"))
            /\ UNCHANGED <<csv, writes>>
       ELSE /\ pc' = "written"
            /\ csv' = ToCsv(Select(DataFrame(all_annotations), column_order))
            /\ writes' = writes + 1
            /\ log' = Append(log, Printed("saved"))
    /\ cap' = "released"
    /\ UNCHANGED <<interval_seconds, total_frames, fps, timestamps, idx, sought,
                   response, all_annotations, pbar_n, pbar_desc, probes,
                   requests, crash, outcomes>>

Next == CheckPath \/ Connect \/ Open \/ Iterate \/ Finalize

Spec == Init /\ [][Next]_vars

FairSpec == Spec /\ WF_vars(Next)

----------------------------------------------------------------------------
(* Vocabulary of the properties *)

\* the timestamps have been computed (lines 124-126 were passed)
Sampled == pc \in {"iterate", "empty", "written"} \/ crash = "TypeError"

\* process_video has returned at Finalize
Finalized == pc \in {"empty", "written"}

\* process_video has returned before the loop
Fatal == pc \in {"not_found", "unreachable", "not_opened"}

\* the duration total_frames / fps equals d seconds
DurationIs(d) == fps.num > 0 /\ total_frames * fps.den = d * fps.num

LastOutcome == IF outcomes = <<>> THEN "" ELSE outcomes[Len(outcomes)]

\* the timestamps whose iteration ended with the given outcome, in order
RECURSIVE TimestampsWith(_, _)
TimestampsWith(kind, n) ==
    IF n = 0 THEN <<>>
    ELSE TimestampsWith(kind, n - 1)
         \o (IF outcomes[n] = kind THEN <<timestamps[n]>> ELSE <<>>)

Annotated == TimestampsWith("annotated", Len(outcomes))

\* the three failures of the annotation client, as responses
FailureResponses ==
    {TransportError, Text(Render(MissingKey)), Text(<<"o", "o", "p", "s">>)}

----------------------------------------------------------------------------
(* C1: for a duration D > 0 and an interval I >= 1 the timestamp sequence   *)
(* has exactly floor(D/I) elements, its k-th element (from 0) is k*I, it   *)
(* starts at 0 and every element is strictly less than D.  floor(D/I) is   *)
(* the n with n*I <= D < (n+1)*I; D = total_frames * den / num.            *)
C1_TimestampSequence ==
    (Sampled /\ total_frames > 0 /\ fps.num > 0 /\ interval_seconds >= 1) =>
        LET n == Len(timestamps)
            I == interval_seconds
        IN /\ n * I * fps.num <= total_frames * fps.den
           /\ total_frames * fps.den < (n + 1) * I * fps.num
           /\ \A k \in 0..(n - 1) : timestamps[k + 1] = k * I
           /\ n > 0 => timestamps[1] = 0
           /\ \A k \in 1..n : timestamps[k] * fps.num < total_frames * fps.den

\* a duration that is no multiple of the interval, with two samples
C1_Witness ==
    /\ Sampled
    /\ DurationIs(12)
    /\ interval_seconds = 5
    /\ timestamps = <<0, 5>>

(* C2 as stated: with interval 5 and duration 12 the timestamps are        *)
(* [0, 5, 10]; if 5 fails to decode and 0 and 10 are annotated, the output *)
(* has exactly two data rows, for 0 and 10.                                *)
C2_Original ==
    (Sampled /\ DurationIs(12) /\ interval_seconds = 5) =>
        /\ timestamps = <<0, 5, 10>>
        /\ (Finalized /\ outcomes = <<"annotated", "decode_failed", "annotated">>) =>
               /\ Len(csv) = 3
               /\ csv[2][1] = <<0>>
               /\ csv[3][1] = <<10>>

(* C2 amended: with interval 5 and duration 12 the timestamps are [0, 5];  *)
(* if 5 fails to decode and 0 is annotated, the output has exactly one     *)
(* data row, for 0.                                                        *)
C2_Amended ==
    (Sampled /\ DurationIs(12) /\ interval_seconds = 5) =>
        /\ timestamps = <<0, 5>>
        /\ (Finalized /\ outcomes = <<"annotated", "decode_failed">>) =>
               /\ pc = "written"
               /\ Len(csv) = 2
               /\ csv[2][1] = <<0>>

C2_Witness ==
    /\ pc = "written"
    /\ DurationIs(12)
    /\ interval_seconds = 5
    /\ outcomes = <<"annotated", "decode_failed">>

(* C3: when the annotation of a timestamp fails on a missing key, invalid  *)
(* JSON or a transport error, no row is appended and the loop goes on to   *)
(* the next timestamp; the run is not aborted by it.  A run that returns   *)
(* at Finalize has attempted every timestamp, and under fair scheduling a  *)
(* run in the loop reaches Finalize unless an exception of lines 145-148   *)
(* (the subject of C10) ends it.                                           *)
C3_FailureStep ==
    (pc = "iterate" /\ requests' = requests + 1 /\ response' \in FailureResponses) =>
        /\ all_annotations' = all_annotations
        /\ idx' = idx + 1
        /\ pc' = "iterate"
        /\ crash' = ""
        /\ csv' = csv

C3_SkipAndContinue ==
    /\ [][C3_FailureStep]_vars
    /\ [](Finalized => Len(outcomes) = Len(timestamps))
    /\ (pc = "iterate") ~> (Finalized \/ crash = "TypeError")

\* a failed annotation at the first timestamp, a row for the second, a file
C3_Witness ==
    /\ pc = "written"
    /\ outcomes = <<"annotation_failed", "annotated">>
    /\ Len(all_annotations) = 1

(* C4: if N >= 1 annotations succeed, the file written at Finalize has a   *)
(* header row and exactly N data rows, one per annotated timestamp and no  *)
(* others, in strictly ascending timestamp order, with the columns in the  *)
(* order timestamp, title, caption, scene_description, persons, objects.   *)
C4_OutputTable ==
    (Finalized /\ Len(Annotated) >= 1) =>
        /\ pc = "written"
        /\ Len(csv) = Len(Annotated) + 1
        /\ csv[1] = <<"timestamp", "title", "caption", "scene_description",
                      "persons", "objects">>
        /\ \A i \in 1..Len(Annotated) :
              /\ Len(csv[i + 1]) = 6
              /\ csv[i + 1][1] = <<Annotated[i]>>
              /\ csv[i + 1][2] = <<all_annotations[i].title>>
              /\ csv[i + 1][5] = all_annotations[i].persons
              /\ csv[i + 1][6] = all_annotations[i].objects
        /\ \A i \in 1..(Len(Annotated) - 1) : csv[i + 1][1][1] < csv[i + 2][1][1]

C4_Witness ==
    /\ pc = "written"
    /\ Len(csv) = 3
    /\ outcomes = <<"annotated", "annotated">>

(* C5: if no annotation succeeds (every timestamp is skipped, or there is  *)
(* none), the run ends in the empty-result state and no file is written;   *)
(* a file is written at most once, and only after the loop has finished.   *)
C5_EmptyResult ==
    /\ (Finalized /\ Annotated = <<>>) =>
           pc = "empty" /\ csv = <<>> /\ writes = 0
    /\ writes <= 1
    /\ (csv # <<>> \/ writes > 0) =>
           /\ pc = "written"
           /\ writes = 1
           /\ Len(outcomes) = Len(timestamps)
           /\ idx > Len(timestamps)

\* two timestamps, both skipped
C5_Witness ==
    /\ pc = "empty"
    /\ outcomes = <<"decode_failed", "annotation_failed">>

(* C6: a well-formed payload with the five keys gives the same annotation  *)
(* whether it arrives bare or wrapped in a code fence, for every opening   *)
(* marker (```json or ```), with or without a newline before the closing   *)
(* marker and with or without trailing whitespace; persons and objects     *)
(* are then flattened in their order.                                      *)
C6_FenceTolerated ==
    \A v \in WellFormed, o \in {FenceJson, FencePlain}, n \in BOOLEAN, t \in BOOLEAN :
        (LastOutcome # "decode_failed" /\ response = Text(Fenced(v, o, n, t))) =>
            /\ GetFrameAnnotation(response) = GetFrameAnnotation(Text(Render(v)))
            /\ LastOutcome = "annotated"
            /\ all_annotations[Len(all_annotations)].persons = Join(v.persons.items)
            /\ all_annotations[Len(all_annotations)].objects = Join(v.objects.items)

(* C7: when the decode of the frame at a timestamp fails, the timestamp is *)
(* skipped with a warning that names it, no inference request is sent and  *)
(* the loop goes on to the next timestamp.                                 *)
C7_DecodeStep ==
    (pc = "iterate" /\ Len(outcomes') = Len(outcomes) + 1
        /\ outcomes'[Len(outcomes')] = "decode_failed") =>
        /\ requests' = requests
        /\ idx' = idx + 1
        /\ pc' = "iterate"
        /\ Len(log') = Len(log) + 1
        /\ log'[Len(log')].ts = {timestamps[idx]}

C7_DecodeFailureWarned == [][C7_DecodeStep]_vars

(* C8 as stated: the probe is performed exactly once per run, before any   *)
(* frame work; a failed probe or an unavailable source ends the run with   *)
(* no request sent, no row accumulated and no file written.                *)
C8_Original ==
    /\ (Fatal \/ Finalized \/ pc = "crashed") => probes = 1
    /\ (sought # <<>> \/ requests > 0) => probes = 1
    /\ Fatal => /\ requests = 0
                /\ sought = <<>>
                /\ all_annotations = <<>>
                /\ csv = <<>>
                /\ writes = 0

(* C8 amended: the probe is performed at most once per run, exactly once   *)
(* in every run whose video path exists, and before any frame work; a      *)
(* failed probe or an unavailable source ends the run with no request      *)
(* sent, no row accumulated and no file written.                           *)
C8_Amended ==
    /\ probes <= 1
    /\ pc \notin {"start", "connect", "not_found"} => probes = 1
    /\ pc = "not_found" => probes = 0
    /\ (sought # <<>> \/ requests > 0) => probes = 1
    /\ Fatal => /\ requests = 0
                /\ sought = <<>>
                /\ all_annotations = <<>>
                /\ csv = <<>>
                /\ writes = 0

\* a run ended by a failed probe
C8_Witness == pc = "unreachable" /\ probes = 1

(* C9 as stated: the frame index sought for timestamp t at frame rate f is *)
(* round(t * f).                                                           *)
C9_Original ==
    \A i \in 1..Len(sought) :
        sought[i] = Round(timestamps[i] * fps.num, fps.den)

(* C9 amended: the frame index sought is t * f truncated to an integer:    *)
(* the greatest integer not above t * f.                                   *)
C9_Amended ==
    \A i \in 1..Len(sought) :
        /\ sought[i] * fps.den <= timestamps[i] * fps.num
        /\ timestamps[i] * fps.num < (sought[i] + 1) * fps.den

\* a product with fractional part 1/2: 1 * 3/2
C9_Witness ==
    /\ fps = [num |-> 3, den |-> 2]
    /\ Len(sought) = 2
    /\ timestamps[2] = 1
    /\ sought[2] = 1

(* C10: whatever response get_frame_annotation accepts, the loop body      *)
(* appends one row or skips the timestamp and goes on to the next          *)
(* timestamp: no response aborts the run.                                  *)
C10_AcceptedStep ==
    (pc = "iterate" /\ requests' = requests + 1
        /\ GetFrameAnnotation(response').data # None) =>
        /\ pc' = "iterate"
        /\ crash' = ""
        /\ idx' = idx + 1
        /\ \/ all_annotations' = all_annotations
           \/ /\ Len(all_annotations') = Len(all_annotations) + 1
              /\ SubSeq(all_annotations', 1, Len(all_annotations)) = all_annotations

C10_NoResponseAborts == [][C10_AcceptedStep]_vars

====
